---- MODULE Spec2Model ----
(***************************************************************************)
(* The Perceptron class of LogicGates.ipynb: a weight vector, a bias and a *)
(* learning rate, predict (dot product plus bias through a step function)  *)
(* and train (the online error-correction rule), over numpy float64.       *)
(***************************************************************************)
EXTENDS Integers, Sequences, FiniteSets, TLC

(***************************************************************************)
(* numpy float64 (np.zeros' default dtype).  Every value the class reaches *)
(* from zero weights with the rates and the integer inputs below is an     *)
(* integer multiple of 2^-56 (one ulp of 0.1), so a value is held exactly  *)
(* as <<sign, hi, lo>>: sign 1 for negative, magnitude hi * 2^28 + lo in   *)
(* units of 2^-56.  An arithmetic result is the exact result rounded to 53 *)
(* significant bits, ties to even, as IEEE 754 prescribes.  Zero is always *)
(* held with sign 0: the sign of a zero is not observable through >=.      *)
(***************************************************************************)
Limb == 2 ^ 28

Exact == 2 ^ 25

Zero == <<0, 0, 0>>

\* 0.1 = 0x1.999999999999ap-4 = 7205759403792794 * 2^-56
Tenth == <<0, 26843545, 161061274>>

Float64 == {0, 1} \X Nat \X Nat

\* The arithmetic is written as functions, which TLC applies to values: an
\* operator's arguments would be evaluated anew at each of their uses.
BitLen[h \in Nat] == IF h = 0 THEN 0 ELSE 1 + BitLen[h \div 2]

\* a magnitude <<hi, lo>> rounded to 53 significant bits, ties to even
Round53[hi \in Nat, lo \in Nat] ==
    IF hi < Exact THEN <<hi, lo>>
    ELSE LET q == 2 ^ (BitLen[hi] - 25)
             r == lo % q
             base == lo - r
             up == \/ 2 * r > q
                   \/ 2 * r = q /\ (base \div q) % 2 = 1
             lo2 == IF up THEN base + q ELSE base
         IN IF lo2 = Limb THEN <<hi + 1, 0>> ELSE <<hi, lo2>>

Signed[s \in {0, 1}, m \in Nat \X Nat] ==
    IF m = <<0, 0>> THEN Zero ELSE <<s, m[1], m[2]>>

MagLess[a \in Float64, b \in Float64] ==
    a[2] < b[2] \/ (a[2] = b[2] /\ a[3] < b[3])

MagAdd[a \in Float64, b \in Float64] ==
    Round53[a[2] + b[2] + (a[3] + b[3]) \div Limb, (a[3] + b[3]) % Limb]

\* |a| - |b| for |a| >= |b|
MagSub[a \in Float64, b \in Float64] ==
    IF a[3] < b[3]
    THEN Round53[a[2] - b[2] - 1, a[3] - b[3] + Limb]
    ELSE Round53[a[2] - b[2], a[3] - b[3]]

\* float64 a + b
FAdd[a \in Float64, b \in Float64] ==
    IF a[1] = b[1] THEN Signed[a[1], MagAdd[a, b]]
    ELSE IF MagLess[a, b] THEN Signed[b[1], MagSub[b, a]]
    ELSE Signed[a[1], MagSub[a, b]]

Abs[m \in Int] == IF m < 0 THEN -m ELSE m

\* float64 a * m for an integer m (numpy converts the integer exactly)
FMulInt[a \in Float64, m \in Int] ==
    Signed[IF m < 0 THEN 1 - a[1] ELSE a[1],
           Round53[a[2] * Abs[m] + (a[3] * Abs[m]) \div Limb, (a[3] * Abs[m]) % Limb]]

\* float64 a >= 0
FGeZero(a) == a[1] = 0

(***************************************************************************)
(* The inputs the calls are given.                                         *)
(***************************************************************************)
MaxLen == 2

MaxPrefix == 1

MaxEpochs == 2

MaxGateEpochs == 11

InputSizes == {-1, 0, 1, 2}

InputVals == {0, 1}

Labels == {0, 1}

BadLabels == {2}

LearningRates == {Tenth, Zero}

Rows(n) == IF n < 0 THEN {} ELSE [1..n -> InputVals]

\* vectors one element too short, and one too long
WrongRows(n) == Rows(n - 1) \cup {[i \in 1..(n + 1) |-> 1]}

SeqsUpTo(S, m) == UNION {[1..l -> S] : l \in 1..m}

PrefixesUpTo(S, m) == {<<>>} \cup SeqsUpTo(S, m)

\* the rows of the n-input truth table in ascending binary order
RECURSIVE TableRows(_)
TableRows(n) ==
    IF n = 0 THEN <<  <<>>  >>
    ELSE LET t == TableRows(n - 1)
         IN [i \in 1..(2 * Len(t)) |->
                IF i <= Len(t) THEN <<0>> \o t[i] ELSE <<1>> \o t[i - Len(t)]]

Dataset(ex) == [inputs |-> [i \in 1..Len(ex) |-> ex[i][1]],
                outputs |-> [i \in 1..Len(ex) |-> ex[i][2]]]

\* the full n-input truth table with its rows in every order
TableOrders(n) ==
    {t \in [1..Len(TableRows(n)) -> Rows(n)] : {t[i] : i \in 1..Len(t)} = Rows(n)}

\* every sequence of up to MaxLen labelled rows, and every labelling of the
\* full truth table in every order of its rows
ValidDatasets(n) ==
    {Dataset(ex) : ex \in SeqsUpTo(Rows(n) \X Labels, MaxLen)}
    \cup {[inputs |-> t, outputs |-> o] :
             t \in TableOrders(n), o \in [1..Len(TableRows(n)) -> Labels]}

\* a valid prefix followed by one example of the wrong length or with a label
\* outside {0, 1}
InvalidDatasets(n) ==
    {Dataset(Append(ex, bad)) :
        ex \in PrefixesUpTo(Rows(n) \X Labels, MaxPrefix),
        bad \in (WrongRows(n) \X Labels) \cup (Rows(n) \X BadLabels)}

OR_outputs == <<0, 1, 1, 1>>

AND_outputs == <<0, 0, 0, 1>>

OR_outputs_3 == <<0, 1, 1, 1, 1, 1, 1, 1>>

AND_outputs_3 == <<0, 0, 0, 0, 0, 0, 0, 1>>

Gates == {[inputs |-> TableRows(2), outputs |-> OR_outputs],
          [inputs |-> TableRows(2), outputs |-> AND_outputs],
          [inputs |-> TableRows(3), outputs |-> OR_outputs_3],
          [inputs |-> TableRows(3), outputs |-> AND_outputs_3]}

(***************************************************************************)
(* class Perceptron                                                        *)
(***************************************************************************)
VARIABLES
    pc,             \* "new": no unit yet; "idle": between calls; "train": in train's loops
    weights, bias, learning_rate,                 \* self.*
    inputs, outputs, epochs,                      \* train's arguments
    epoch, k,                                     \* completed sweeps, next example
    prediction, error,                            \* train's locals
    x, result,                                    \* the last predict call and what it returned
    call, raised,                                 \* the last call made and its exception
    steps,          \* example steps done in the current train call
    errs,           \* misclassified examples in the current (or just completed) sweep
    clean,          \* a full sweep of this dataset had no misclassification
    w0, b0,         \* weights and bias when the current call began
    ew, eb          \* weights and bias when the current (or just completed) sweep began

unit == <<weights, bias, learning_rate>>

args == <<inputs, outputs, epochs>>

loop == <<epoch, k, prediction, error, steps, errs, clean, ew, eb>>

vars == <<pc, unit, args, loop, x, result, call, raised, w0, b0>>

activation_function(p) == IF FGeZero(p) THEN 1 ELSE 0

loss_function_flipped(expected_output, pred) == pred - expected_output

loss_function(expected_output, pred) == expected_output - pred

\* np.dot(x, self.weights): the products summed in index order
dot(xx, w) ==
    LET sum[i \in 0..Len(xx)] ==
            IF i = 0 THEN Zero ELSE FAdd[sum[i - 1], FMulInt[w[i], xx[i]]]
    IN sum[Len(xx)]

predict(w, b, xx) == activation_function(FAdd[dot(xx, w), b])

update_weights_sub(w, lr, e, xx) ==
    [i \in 1..Len(w) |-> FAdd[w[i], FMulInt[FMulInt[lr, -e], xx[i]]]]

\* self.weights += self.learning_rate * error * input_vector
update_weights(w, lr, e, xx) ==
    [i \in 1..Len(w) |-> FAdd[w[i], FMulInt[FMulInt[lr, e], xx[i]]]]

update_bias_rate(b, lr, e) == FAdd[b, lr]

update_bias_skipped(b, lr, e) == b

\* self.bias += self.learning_rate * error
update_bias(b, lr, e) == FAdd[b, FMulInt[lr, e]]

more_epochs_until_clean(done, n, missed) == done < n /\ missed > 0

\* for _ in range(epochs): whether another sweep follows `done` sweeps
more_epochs(done, n, missed) == done < n

\* zip(input_vectors, outputs) stops with the shorter sequence
ZipLen(ins, outs) == IF Len(ins) < Len(outs) THEN Len(ins) ELSE Len(outs)

trained == inputs # <<>>

\* what result holds when the last predict call returned nothing
NoResult == -1

\* every weight and the bias below 0.5 in magnitude: train is entered only
\* then, which keeps the run of a dataset whose labels the rule can never
\* meet (a label of 2) finite; no dataset labelled in {0, 1} comes near it
InRange ==
    \A v \in {weights[i] : i \in 1..Len(weights)} \cup {bias} : 2 * v[2] < Limb

Init ==
    /\ pc = "new"
    /\ weights = <<>> /\ bias = Zero /\ learning_rate = Zero
    /\ inputs = <<>> /\ outputs = <<>> /\ epochs = 0
    /\ epoch = 0 /\ k = 1 /\ prediction = 0 /\ error = 0
    /\ x = <<>> /\ result = NoResult
    /\ call = "none" /\ raised = "none"
    /\ steps = 0 /\ errs = 0 /\ clean = FALSE
    /\ w0 = <<>> /\ b0 = Zero /\ ew = <<>> /\ eb = Zero

\* Perceptron(input_size, learning_rate): np.zeros raises ValueError on a
\* negative size and nothing else is checked
Construct(input_size, lr) ==
    /\ pc = "new"
    /\ call' = "init"
    /\ IF input_size < 0
       THEN /\ raised' = "ValueError"
            /\ UNCHANGED <<pc, unit, w0, b0>>
       ELSE /\ raised' = "none"
            /\ pc' = "idle"
            /\ weights' = [i \in 1..input_size |-> Zero]
            /\ bias' = Zero
            /\ learning_rate' = lr
            /\ w0' = weights' /\ b0' = bias'
    /\ UNCHANGED <<args, loop, x, result>>

PredictCall_adds_to_bias(xx) ==
    /\ pc = "idle"
    /\ call' = "predict"
    /\ x' = xx
    /\ IF Len(xx) # Len(weights)
       THEN raised' = "ValueError" /\ result' = NoResult /\ bias' = bias
       ELSE /\ raised' = "none"
            /\ bias' = FAdd[dot(xx, weights), bias]
            /\ result' = activation_function(bias')
    /\ w0' = weights /\ b0' = bias
    /\ UNCHANGED <<pc, weights, learning_rate, args, loop>>

\* predict(x) called from outside: np.dot raises ValueError when the lengths differ
PredictCall(xx) ==
    /\ pc = "idle"
    /\ call' = "predict"
    /\ x' = xx
    /\ IF Len(xx) # Len(weights)
       THEN raised' = "ValueError" /\ result' = NoResult
       ELSE raised' = "none" /\ result' = predict(weights, bias, xx)
    /\ w0' = weights /\ b0' = bias
    /\ UNCHANGED <<pc, unit, args, loop>>

\* train(input_vectors, outputs, epochs) is entered
TrainCall(ins, outs, ep) ==
    /\ pc = "idle"
    /\ InRange
    /\ pc' = "train"
    /\ call' = "train" /\ raised' = "none"
    /\ inputs' = ins /\ outputs' = outs /\ epochs' = ep
    /\ epoch' = 0 /\ k' = 1 /\ steps' = 0
    /\ w0' = weights /\ b0' = bias
    /\ x' = <<>> /\ result' = NoResult
    /\ UNCHANGED <<unit, prediction, error, errs, clean, ew, eb>>

\* one pass of the inner loop's body, and the loops' advance
TrainStep ==
    /\ pc = "train"
    /\ LET input_vector == inputs[k]
           output == outputs[k]
       IN IF Len(input_vector) # Len(weights)
          THEN \* self.predict raises out of train
               /\ pc' = "idle"
               /\ raised' = "ValueError"
               /\ UNCHANGED <<unit, loop>>
          ELSE LET p == predict(weights, bias, input_vector)
                   e == loss_function(output, p)
                   missed == (IF k = 1 THEN 0 ELSE errs) + (IF p # output THEN 1 ELSE 0)
                   last == k = ZipLen(inputs, outputs)
               IN /\ prediction' = p
                  /\ error' = e
                  /\ weights' = update_weights(weights, learning_rate, e, input_vector)
                  /\ bias' = update_bias(bias, learning_rate, e)
                  /\ steps' = steps + 1
                  /\ errs' = missed
                  /\ k' = IF last THEN 1 ELSE k + 1
                  /\ epoch' = IF last THEN epoch + 1 ELSE epoch
                  /\ clean' = (clean \/ (last /\ missed = 0))
                  /\ ew' = IF k = 1 THEN weights ELSE ew
                  /\ eb' = IF k = 1 THEN bias ELSE eb
                  /\ pc' = IF last /\ ~more_epochs(epoch + 1, epochs, missed)
                           THEN "idle" ELSE "train"
                  /\ UNCHANGED <<learning_rate, raised>>
    /\ UNCHANGED <<args, x, result, call, w0, b0>>

New == \E n \in InputSizes, lr \in LearningRates : Construct(n, lr)

Predict == \E xx \in Rows(Len(weights)) \cup WrongRows(Len(weights)) : PredictCall(xx)

\* a unit's first train call
Train ==
    /\ ~trained
    /\ \E ds \in ValidDatasets(Len(weights)) \cup InvalidDatasets(Len(weights)),
          ep \in 1..MaxEpochs :
           TrainCall(ds.inputs, ds.outputs, ep)

\* a later train call, on the same dataset
Retrain ==
    /\ trained
    /\ \E ep \in 1..MaxEpochs : TrainCall(inputs, outputs, ep)

Next == New \/ Predict \/ Train \/ Retrain \/ TrainStep

Spec == Init /\ [][Next]_vars

\* the caller trains again and again, and every call runs to its end
FairSpec == Spec /\ WF_vars(Retrain) /\ WF_vars(TrainStep)

\* the notebook's cells: Perceptron(2) or Perceptron(3), one train call on a
\* gate's truth table, then predict on its rows
NewGate == \E n \in {2, 3} : Construct(n, Tenth)

TrainGate ==
    \E g \in Gates, ep \in 10..MaxGateEpochs :
        /\ ~trained
        /\ Len(g.inputs[1]) = Len(weights)
        /\ TrainCall(g.inputs, g.outputs, ep)

PredictGate == \E xx \in Rows(Len(weights)) : PredictCall(xx)

NextGates == NewGate \/ TrainGate \/ TrainStep \/ PredictGate

SpecGates == Init /\ [][NextGates]_vars

(***************************************************************************)
(* The properties checked.                                                 *)
(***************************************************************************)
SepK == 2

IntDot(w, xx) == IF Len(xx) = 0 THEN 0 ELSE
    LET S[i \in 0..Len(xx)] == IF i = 0 THEN 0 ELSE S[i - 1] + w[i] * xx[i]
    IN S[Len(xx)]

\* every row has the unit's length and every label is 0 or 1
ValidDataset ==
    /\ trained
    /\ \A i \in 1..Len(inputs) : Len(inputs[i]) = Len(weights)
    /\ \A i \in 1..Len(outputs) : outputs[i] \in Labels

\* some integer weights and bias classify every example under "1 iff activation >= 0"
Separable ==
    /\ ValidDataset
    /\ \E w \in [1..Len(weights) -> -SepK..SepK], b \in -SepK..SepK :
          \A i \in 1..Len(inputs) : (outputs[i] = 1) <=> (IntDot(w, inputs[i]) + b >= 0)

Positive(v) == v[1] = 0 /\ v # Zero

\* a unit as the notebook builds them: some inputs, learning rate 0.1
ProperUnit == pc # "new" /\ Len(weights) > 0 /\ learning_rate = Tenth

\* a train call has returned without raising
TrainReturned == pc = "idle" /\ call = "train" /\ raised = "none"

\* a sweep of the dataset has just been completed
SweepDone == trained /\ raised = "none" /\ steps > 0 /\ k = 1

\* the step taken is an example step of train
ExampleStep == pc = "train" /\ steps' = steps + 1

\* C1: after one train call of at least 10 epochs on a gate's truth table, from a
\* fresh unit with learning rate 0.1, predict returns the table's output on
\* every row (2- and 3-input OR and AND)
GatesReproduced ==
    (pc = "idle" /\ trained /\ epochs >= 10) =>
        /\ \A i \in 1..Len(inputs) : predict(weights, bias, inputs[i]) = outputs[i]
        /\ call = "predict" =>
              \A i \in 1..Len(inputs) : inputs[i] = x => result = outputs[i]

GatesWitness ==
    /\ pc = "idle" /\ call = "predict" /\ epochs = 10
    /\ outputs = AND_outputs_3 /\ x = <<1, 1, 1>> /\ result = 1

\* C2: on a linearly separable dataset, trained from zero with a positive
\* learning rate, the sweeps eventually have no misclassification, for good
Converges ==
    <>[]((Separable /\ Positive(learning_rate)) => (clean /\ errs = 0))

ConvergesWitness ==
    /\ Separable /\ Positive(learning_rate) /\ clean /\ errs = 0
    /\ pc = "train" /\ epoch = 1 /\ inputs = TableRows(2) /\ outputs = AND_outputs

\* C3: once a full sweep had no misclassification, every later example step, in
\* this train call or a later one on the same dataset, leaves weights and bias
\* as they are and finds no misclassification
CleanStays ==
    [][(clean /\ ExampleStep) =>
          weights' = weights /\ bias' = bias /\ error' = 0 /\ errs' = 0]_vars

CleanStaysWitness ==
    /\ TrainReturned /\ clean /\ Positive(learning_rate)
    /\ steps = MaxEpochs * Len(inputs) /\ w0 = weights /\ b0 = bias /\ b0 # Zero

\* C4: a call that fails on a vector of the wrong length leaves weights and
\* bias as they were when the call began
MismatchLeavesState ==
    (ProperUnit /\ pc = "idle" /\ raised = "ValueError") => (weights = w0 /\ bias = b0)

\* C5: a unit exists only with a positive input size and a positive learning rate
ConstructionValidated ==
    pc # "new" => (Len(weights) > 0 /\ Positive(learning_rate))

\* C6: a predict call leaves weights, bias and learning rate as they are, and
\* repeated right after itself on the same input returns the same value
PredictReadOnly ==
    [][(pc = "idle" /\ call' = "predict") =>
          /\ weights' = weights /\ bias' = bias /\ learning_rate' = learning_rate
          /\ (call = "predict" /\ x' = x) => result' = result]_vars

PredictWitness ==
    /\ pc = "idle" /\ call = "predict" /\ result = 0 /\ x = <<1, 0>>
    /\ Positive(weights[1]) /\ ~FGeZero(bias)

\* C7 as stated: on a truth table that is not linearly separable every sweep has
\* a misclassified example and ends with weights or bias different from those
\* it began with
NeverSettles ==
    (ProperUnit /\ SweepDone /\ inputs = TableRows(Len(weights)) /\ ~Separable) =>
        (errs >= 1 /\ <<weights, bias>> # <<ew, eb>>)

\* C7 amended: on a dataset that is not linearly separable every sweep has a
\* misclassified example, and with learning rate 0.1 every misclassified
\* example changes the bias
NeverClean ==
    [][(ExampleStep /\ ValidDataset /\ ~Separable) =>
          /\ k' = 1 => errs' >= 1
          /\ (error' # 0 /\ learning_rate = Tenth) => bias' # bias]_vars

NeverCleanWitness ==
    /\ SweepDone /\ ~Separable /\ learning_rate = Tenth /\ epoch = 2
    /\ inputs = TableRows(2) /\ outputs = <<0, 1, 1, 0>>
    /\ errs = 4 /\ <<weights, bias>> = <<ew, eb>>

\* C8: a train call that returns normally was given labels in {0, 1} only, and
\* the error it applied last lies in {-1, 0, 1}
BadLabelRejected ==
    (ProperUnit /\ TrainReturned) =>
        (error \in {-1, 0, 1} /\ \A i \in 1..Len(outputs) : outputs[i] \in Labels)

\* C9: an example step predicts from the weights and bias as they are now, then
\* adds learning_rate * (expected - prediction) * input[i] to every weight and
\* learning_rate * (expected - prediction) to the bias, and changes neither the
\* learning rate nor the length of the weight vector
OnlineStep ==
    [][ExampleStep =>
          LET xx == inputs[k]
              d == FMulInt[learning_rate, outputs[k] - prediction']
          IN /\ prediction' = (IF FGeZero(FAdd[dot(xx, weights), bias]) THEN 1 ELSE 0)
             /\ error' = outputs[k] - prediction'
             /\ Len(weights') = Len(weights)
             /\ \A i \in 1..Len(weights) : weights'[i] = FAdd[weights[i], FMulInt[d, xx[i]]]
             /\ bias' = FAdd[bias, d]
             /\ learning_rate' = learning_rate]_vars

\* an example after the first of its sweep was predicted differently than the
\* weights and bias of the sweep's start would have predicted it
OnlineWitness ==
    /\ pc = "train" /\ k > 1 /\ steps > 0 /\ ValidDataset
    /\ prediction # predict(ew, eb, inputs[k - 1])
    /\ error # 0

\* C10: a train call that returns has done exactly epochs sweeps of all N
\* examples, in order, whatever the sweeps found
AllSweepsRun ==
    LET N == ZipLen(inputs, outputs)
    IN /\ TrainReturned => (steps = epochs * N /\ epoch = epochs)
       /\ pc = "train" => /\ steps < epochs * N
                          /\ epoch = steps \div N
                          /\ k = (steps % N) + 1

AllSweepsWitness ==
    /\ TrainReturned /\ clean /\ w0 = weights /\ b0 = bias /\ b0 # Zero
    /\ epochs = 2 /\ steps = 2 * Len(inputs) /\ Len(inputs) = 4
====
